---- MODULE Spec2Model ----
(***************************************************************************)
(* Quizly: the create-quiz pipeline of quiz_app (URL normalisation,        *)
(* transcript acquisition, AI generation, schema validation, atomic        *)
(* persistence) and the quiz list/detail/patch/delete views, as a state    *)
(* machine over the relational store and the requests in flight.           *)
(***************************************************************************)
EXTENDS Integers, Sequences, FiniteSets, TLC

VARIABLES
    apiKeySet,       \* GEMINI_API_KEY is non-empty (read once at import)
    quizzes,         \* table quiz_app_quiz: id -> row (tx = 0: committed)
    questions,       \* table quiz_app_question: id -> row
    nextQuizId,      \* primary-key sequence of quiz_app_quiz
    nextQuestionId,  \* primary-key sequence of quiz_app_question
    req,             \* the requests in flight, one per worker
    tmpfs,           \* the temporary directories on disk: path -> files in it
    acq,             \* the transcript acquisitions in flight, one per worker
    call,            \* a pure helper applied to an argument, and its result
    accounts,        \* table auth_user: id -> row
    reg,             \* the registration requests in flight, one per worker
    tokens,          \* the refresh tokens issued: token -> its state
    auth             \* the logout or refresh request being answered

quizVars == <<apiKeySet, quizzes, questions, nextQuizId, nextQuestionId, req>>
otherVars == <<tmpfs, acq, call, accounts, reg, tokens, auth>>
vars == <<apiKeySet, quizzes, questions, nextQuizId, nextQuestionId, req,
          tmpfs, acq, call, accounts, reg, tokens, auth>>

(***************************************************************************)
(* Bounds of the model and constants of the program.                       *)
(***************************************************************************)
MaxQuizzes == 2
MaxFragments == 4
MaxSwitches == 2
MaxTokens == 2

NumQuestions == 10
NumOptions == 4
MinTranscriptLen == 50
MinIdLen == 6

Workers == {"w1"}
Users == {"alice", "bob"}

(***************************************************************************)
(* Text. A string is a sequence of one-character strings; None is a value  *)
(* that is no string.                                                      *)
(***************************************************************************)
None == <<"<None>">>

Lower == {"a","b","c","d","e","f","g","h","i","j","k","l","m","n","o","p","q",
          "r","s","t","u","v","w","x","y","z"}
Upper == {"A","B","C","D","E","F","G","H","I","J","K","L","M","N","O","P","Q",
          "R","S","T","U","V","W","X","Y","Z"}
Digits == {"0","1","2","3","4","5","6","7","8","9"}
IdChars == Lower \cup Upper \cup Digits \cup {"_", "-"}

StartsWithAt(s, i, p) ==
    /\ i + Len(p) - 1 <= Len(s)
    /\ SubSeq(s, i, i + Len(p) - 1) = p

\* Length of the longest run of [A-Za-z0-9_-] that starts at position i.
RECURSIVE IdRun(_, _)
IdRun(s, i) ==
    IF i > Len(s) \/ s[i] \notin IdChars THEN 0 ELSE 1 + IdRun(s, i + 1)

MarkerV == <<"v", "=">>
MarkerShort == <<"y","o","u","t","u",".","b","e","/">>
WatchPrefix == <<"h","t","t","p","s",":","/","/","w","w","w",".","y","o","u",
                 "t","u","b","e",".","c","o","m","/","w","a","t","c","h","?",
                 "v","=">>

\* Variant: the short link marker is not recognised.
MarkerAtWatchOnly(s, i) ==
    IF StartsWithAt(s, i, MarkerV) THEN Len(MarkerV) ELSE 0

\* Length of the marker (?:v=|youtu\.be/) matched at position i, 0 if none.
MarkerAt(s, i) ==
    IF StartsWithAt(s, i, MarkerV) THEN Len(MarkerV)
    ELSE IF StartsWithAt(s, i, MarkerShort) THEN Len(MarkerShort)
    ELSE 0

\* re.search: the leftmost position where the whole pattern matches, 0 if none.
RECURSIVE SearchFrom(_, _)
SearchFrom(s, i) ==
    IF i > Len(s) THEN 0
    ELSE IF MarkerAt(s, i) > 0 /\ IdRun(s, i + MarkerAt(s, i)) >= MinIdLen THEN i
    ELSE SearchFrom(s, i + 1)

normalize_youtube_url(url) ==
    LET at == SearchFrom(url, 1) IN
    IF at = 0 THEN None
    ELSE LET from == at + MarkerAt(url, at)
             vid == SubSeq(url, from, from + IdRun(url, from) - 1)
         IN WatchPrefix \o vid

\* The urls the model submits.
UrlWatch == <<"h","t","t","p","s",":","/","/","y","t",".","c","/","w","?",
              "v","=","a","b","c","1","2","3","&","t","=","9">>
UrlShort == <<"h","t","t","p","s",":","/","/","y","o","u","t","u",".","b","e",
              "/","X","y","_","-","7","8","9">>
UrlShortId == <<"h","t","t","p","s",":","/","/","y","t",".","c","/","w","?",
                "v","=","a","b","c","1","2">>
SampleUrls == {UrlWatch, UrlShort, UrlShortId}

\* The create requests of the model's runs: the authenticated user and the
\* url field (None: the serializer's URLField rejects the body).
SamplePosts ==
    { [user |-> "alice", url |-> UrlWatch], [user |-> "bob", url |-> UrlShort],
      [user |-> "bob", url |-> UrlShortId], [user |-> "alice", url |-> None] }

(***************************************************************************)
(* Transcript text, run-length encoded: a sequence of blocks, each a run   *)
(* of n whitespace or n non-whitespace characters. len and strip are       *)
(* computed on the runs.                                                   *)
(***************************************************************************)
Run(isWs, n) == [ws |-> isWs, n |-> n]

RECURSIVE TextLen(_)
TextLen(t) == IF t = <<>> THEN 0 ELSE t[1].n + TextLen(Tail(t))

RECURSIVE LStripRuns(_)
LStripRuns(t) ==
    IF t = <<>> THEN t
    ELSE IF t[1].ws \/ t[1].n = 0 THEN LStripRuns(Tail(t))
    ELSE t

RECURSIVE RStripRuns(_)
RStripRuns(t) ==
    IF t = <<>> THEN t
    ELSE IF t[Len(t)].ws \/ t[Len(t)].n = 0 THEN RStripRuns(SubSeq(t, 1, Len(t) - 1))
    ELSE t

StripRuns(t) == RStripRuns(LStripRuns(t))

NoText == <<[ws |-> TRUE, n |-> 0 - 1]>>   \* Python None where a text is expected

\* What model.transcribe returns under "text" in the model's runs.
SampleWhisperTexts ==
    { NoText,
      <<>>,
      <<Run(TRUE, 1), Run(FALSE, MinTranscriptLen - 1)>>,
      <<Run(FALSE, MinTranscriptLen - 1), Run(TRUE, 1)>>,
      <<Run(FALSE, MinTranscriptLen)>>,
      <<Run(TRUE, 1), Run(FALSE, MinTranscriptLen), Run(TRUE, 2)>>,
      <<Run(FALSE, MinTranscriptLen + 1)>> }

\* text = (result.get("text") or "").strip(); return text if len(text) >= 50 else None
WhisperResult(resultText) ==
    LET text == StripRuns(IF resultText = NoText THEN <<>> ELSE resultText)
    IN IF TextLen(text) >= MinTranscriptLen THEN text ELSE NoText

\* Variant: the floor compared with <= instead of <.
TranscriptRejectedAtFloor(transcript) ==
    \/ transcript = NoText
    \/ TextLen(transcript) = 0
    \/ TextLen(StripRuns(transcript)) <= MinTranscriptLen

\* not transcript or len(transcript.strip()) < 50
TranscriptRejected(transcript) ==
    \/ transcript = NoText
    \/ TextLen(transcript) = 0
    \/ TextLen(StripRuns(transcript)) < MinTranscriptLen

(***************************************************************************)
(* JSON values as json.loads returns them: str, num (canonical numeral),   *)
(* null, list and dict. All values are records of one shape.               *)
(***************************************************************************)
JStr(x) == [t |-> "str", s |-> x, l |-> <<>>, d |-> <<>>]
JNum(x) == [t |-> "num", s |-> x, l |-> <<>>, d |-> <<>>]
JNull == [t |-> "null", s |-> "", l |-> <<>>, d |-> <<>>]
JList(items) == [t |-> "list", s |-> "", l |-> items, d |-> <<>>]
JDict(f) == [t |-> "dict", s |-> "", l |-> <<>>, d |-> f]

Hashable(v) == v.t \notin {"list", "dict"}

NoExc == [type |-> "", msg |-> ""]
ValueError(m) == [type |-> "ValueError", msg |-> m]
TypeError(m) == [type |-> "TypeError", msg |-> m]

SeqRange(q) == {q[i] : i \in DOMAIN q}

validate_question(q) ==
    IF q.t # "dict" THEN ValueError("Invalid question format.")
    ELSE IF ~({"question_title", "question_options", "answer"} \subseteq DOMAIN q.d)
    THEN ValueError("Question is missing.")
    ELSE LET opts == q.d.question_options
             ans == q.d.answer
         IN IF opts.t # "list" \/ Len(opts.l) # NumOptions
            THEN ValueError("Every question must have exactly 4 options.")
            ELSE IF \E i \in DOMAIN opts.l : ~Hashable(opts.l[i])
            THEN TypeError("unhashable type")
            ELSE IF Cardinality(SeqRange(opts.l)) # NumOptions
            THEN ValueError("Options must be unique.")
            ELSE IF ans \notin SeqRange(opts.l)
            THEN ValueError("Answer must be one of the question_options.")
            ELSE NoExc

\* for q in questions: the first question that raises decides.
RECURSIVE validate_questions(_, _)
validate_questions(qs, i) ==
    IF i > Len(qs) THEN NoExc
    ELSE IF validate_question(qs[i]) # NoExc THEN validate_question(qs[i])
    ELSE validate_questions(qs, i + 1)

\* The exception _validate_quiz_json raises on data; NoExc when it returns.
validate_quiz_json(data) ==
    IF data.t # "dict" THEN ValueError("Invalid quiz format.")
    ELSE IF ~({"title", "description", "questions"} \subseteq DOMAIN data.d)
    THEN ValueError("Missing required quiz fields.")
    ELSE LET qs == data.d.questions
         IN IF qs.t # "list" \/ Len(qs.l) # NumQuestions
            THEN ValueError("Quiz must contain exactly 10 questions.")
            ELSE validate_questions(qs.l, 1)

(***************************************************************************)
(* The drafts the generative model returns in the model's runs: those the  *)
(* validator accepts and one for each rule it enforces.                    *)
(***************************************************************************)
QTitles == <<"Q1", "Q2", "Q3", "Q4", "Q5", "Q6", "Q7", "Q8", "Q9", "Q10">>
Letters4 == <<"A", "B", "C", "D">>
Numerals4 == <<"1", "2", "3", "4">>

Question(title, opts, ans) ==
    JDict([question_title |-> JStr(title), question_options |-> JList(opts), answer |-> ans])

\* Four options, rotated by k so that the questions differ in option order.
StrOpts(k) == [i \in 1..NumOptions |-> JStr(Letters4[((i + k) % NumOptions) + 1])]
NumOpts(k) == [i \in 1..NumOptions |-> JNum(Numerals4[((i + k) % NumOptions) + 1])]

StrQuestions(n) == [i \in 1..n |-> Question(QTitles[i], StrOpts(i), StrOpts(i)[(i % NumOptions) + 1])]
NumQuestionsList(n) == [i \in 1..n |-> Question(QTitles[i], NumOpts(i), NumOpts(i)[2])]

Draft(title, description, qs) ==
    JDict([title |-> title, description |-> description, questions |-> JList(qs)])

\* qs with its i-th question replaced by q.
WithQuestion(qs, i, q) == [qs EXCEPT ![i] = q]

DraftStr == Draft(JStr("T1"), JStr("D1"), StrQuestions(NumQuestions))
DraftNum == Draft(JStr("T3"), JStr("D3"), NumQuestionsList(NumQuestions))
DraftNullTitle == Draft(JNull, JStr("D4"), StrQuestions(NumQuestions))
DraftTopList == JList(StrQuestions(NumQuestions))
DraftNoDescription == JDict([title |-> JStr("T1"), questions |-> JList(StrQuestions(NumQuestions))])
DraftNine == Draft(JStr("T1"), JStr("D1"), StrQuestions(NumQuestions - 1))
DraftEleven == Draft(JStr("T1"), JStr("D1"),
                     StrQuestions(NumQuestions) \o <<Question("Q11", StrOpts(1), StrOpts(1)[1])>>)
DraftQuestionsNotList ==
    JDict([title |-> JStr("T1"), description |-> JStr("D1"), questions |-> JStr("none")])
DraftQuestionNotDict ==
    Draft(JStr("T1"), JStr("D1"), WithQuestion(StrQuestions(NumQuestions), 3, JStr("Q3")))
DraftQuestionNoAnswer ==
    Draft(JStr("T1"), JStr("D1"),
          WithQuestion(StrQuestions(NumQuestions), 2,
                       JDict([question_title |-> JStr("Q2"), question_options |-> JList(StrOpts(2))])))
DraftThreeOptions ==
    Draft(JStr("T1"), JStr("D1"),
          WithQuestion(StrQuestions(NumQuestions), 5,
                       Question("Q5", SubSeq(StrOpts(5), 1, NumOptions - 1), StrOpts(5)[1])))
DraftDuplicateOption ==
    Draft(JStr("T1"), JStr("D1"),
          WithQuestion(StrQuestions(NumQuestions), 1,
                       Question("Q1", <<JStr("A"), JStr("A"), JStr("B"), JStr("C")>>, JStr("A"))))
DraftAnswerOutside ==
    Draft(JStr("T1"), JStr("D1"),
          WithQuestion(StrQuestions(NumQuestions), NumQuestions,
                       Question("Q10", StrOpts(0), JStr("E"))))
DraftAnswerOtherType ==
    Draft(JStr("T1"), JStr("D1"),
          WithQuestion(StrQuestions(NumQuestions), 7,
                       Question("Q7", NumOpts(0), JStr("2"))))
DraftUnhashableOption ==
    Draft(JStr("T1"), JStr("D1"),
          WithQuestion(StrQuestions(NumQuestions), 4,
                       Question("Q4", <<JStr("A"), JList(<<JStr("B")>>), JStr("C"), JStr("D")>>, JStr("A"))))

\* The JSON documents, each named by the one symbol that stands for its text.
JsonOf ==
    [c \in {"Js", "Jn", "Jt", "Jl", "Jd", "J9", "J11", "Jq", "Ja", "J3", "Ju", "Jo", "Jy", "Jh", "Jx"} |->
        CASE c = "Js" -> DraftStr
          [] c = "Jn" -> DraftNum
          [] c = "Jt" -> DraftNullTitle
          [] c = "Jl" -> DraftTopList
          [] c = "Jd" -> DraftNoDescription
          [] c = "J9" -> DraftNine
          [] c = "J11" -> DraftEleven
          [] c = "Jq" -> DraftQuestionNotDict
          [] c = "Ja" -> DraftQuestionNoAnswer
          [] c = "J3" -> DraftThreeOptions
          [] c = "Ju" -> DraftDuplicateOption
          [] c = "Jo" -> DraftAnswerOutside
          [] c = "Jy" -> DraftAnswerOtherType
          [] c = "Jh" -> DraftUnhashableOption
          [] c = "Jx" -> DraftQuestionsNotList]

(***************************************************************************)
(* The model's reply text: a sequence of characters in which one symbol of *)
(* DOMAIN JsonOf stands for the whole text of that JSON document.          *)
(***************************************************************************)
Whitespace == {" ", "\n"}
AsciiLetters == Lower \cup Upper
Backtick == "'"   \* stands for the grave accent, which no TLA+ string can hold
Fence == <<Backtick, Backtick, Backtick>>

RECURSIVE LStrip(_)
LStrip(t) == IF t # <<>> /\ t[1] \in Whitespace THEN LStrip(Tail(t)) ELSE t

RECURSIVE RStrip(_)
RStrip(t) ==
    IF t # <<>> /\ t[Len(t)] \in Whitespace THEN RStrip(SubSeq(t, 1, Len(t) - 1)) ELSE t

Strip(t) == RStrip(LStrip(t))

RECURSIVE DropLetters(_)
DropLetters(t) == IF t # <<>> /\ t[1] \in AsciiLetters THEN DropLetters(Tail(t)) ELSE t

\* The first re.sub: the opening fence, the letters after it, then whitespace.
DropOpeningFence(t) == LStrip(DropLetters(SubSeq(t, Len(Fence) + 1, Len(t))))

\* The second re.sub: the fence that ends the text and the whitespace before it.
DropClosingFence(t) ==
    IF Len(t) >= Len(Fence) /\ SubSeq(t, Len(t) - Len(Fence) + 1, Len(t)) = Fence
    THEN RStrip(SubSeq(t, 1, Len(t) - Len(Fence)))
    ELSE t

strip_json_fences(text) ==
    LET t == Strip(text) IN
    IF StartsWithAt(t, 1, Fence)
    THEN Strip(DropClosingFence(DropOpeningFence(t)))
    ELSE t

\* json.loads(raw): the document, or the JSONDecodeError it raises.
JsonLoads(raw) ==
    LET t == Strip(raw) IN
    IF Len(t) = 1 /\ t[1] \in DOMAIN JsonOf
    THEN [exc |-> NoExc, value |-> JsonOf[t[1]]]
    ELSE IF t = <<"n", "u", "l", "l">>
    THEN [exc |-> NoExc, value |-> JNull]
    ELSE [exc |-> [type |-> "JSONDecodeError", msg |-> "Expecting value"], value |-> JNull]

Tagged(c) == Fence \o <<"j", "s", "o", "n", "\n", c, "\n">> \o Fence
Bare(c) == Fence \o <<"\n", c, "\n">> \o Fence
SampleReplies ==
    { None, <<>>, <<" ", "\n">>, <<"N", "o", " ", "q", "u", "i", "z">>, Fence,
      <<"H", "i", "\n">> \o Tagged("Js") }
    \cup {<<c>> : c \in DOMAIN JsonOf}
    \cup {Tagged(c) : c \in {"Js", "J9"}}
    \cup {Bare(c) : c \in {"Jn", "Ju"}}
    \cup {<<" ", c, "\n">> : c \in {"Js"}}

(***************************************************************************)
(* Storage. A row written inside transaction.atomic() carries the worker   *)
(* whose transaction wrote it in tx until the transaction commits; other   *)
(* requests read committed rows only.                                      *)
(***************************************************************************)
Committed == ""

\* CharField and TextField store str(value) for a value that is not a str.
DbText(v) == IF v.t \in {"str", "num"} THEN v.s ELSE "<repr>"
\* title, description, question_title and answer are NOT NULL columns.
NotNull(v) == v.t # "null"

DatabaseError(m) == [type |-> "DatabaseError", msg |-> m]

QuizRow(user, quiz_json, video_url, tx) ==
    [user |-> user,
     title |-> DbText(quiz_json.d.title),
     description |-> DbText(quiz_json.d.description),
     video_url |-> video_url,
     tx |-> tx]

\* Variant: the options stored in reverse order.
QuestionRowReversed(quiz, q, tx) ==
    [quiz |-> quiz,
     question_title |-> DbText(q.d.question_title),
     question_options |-> [i \in 1..Len(q.d.question_options.l) |->
                             q.d.question_options.l[Len(q.d.question_options.l) + 1 - i]],
     answer |-> DbText(q.d.answer),
     tx |-> tx]

\* Variant: the question is attached to the newest quiz row of the table and
\* not to the quiz this request created.
QuestionRowOfLatestQuiz(quiz, q, tx) ==
    [quiz |-> nextQuizId - 1,
     question_title |-> DbText(q.d.question_title),
     question_options |-> q.d.question_options.l,
     answer |-> DbText(q.d.answer),
     tx |-> tx]

QuestionRow(quiz, q, tx) ==
    [quiz |-> quiz,
     question_title |-> DbText(q.d.question_title),
     question_options |-> q.d.question_options.l,
     answer |-> DbText(q.d.answer),
     tx |-> tx]

\* Variant: no atomic block, every row is committed as it is written.
RollbackKeepsRows(table, tx) ==
    [id \in DOMAIN table |->
        IF table[id].tx = tx THEN [table[id] EXCEPT !.tx = Committed] ELSE table[id]]

\* Leaving the atomic block by an exception: the rows tx wrote are gone.
Rollback(table, tx) ==
    [id \in {i \in DOMAIN table : table[i].tx # tx} |-> table[id]]

\* Leaving the atomic block normally: the rows tx wrote become visible.
Commit(table, tx) ==
    [id \in DOMAIN table |->
        IF table[id].tx = tx THEN [table[id] EXCEPT !.tx = Committed] ELSE table[id]]

Visible(table) == {id \in DOMAIN table : table[id].tx = Committed}

\* Quiz.questions: the committed questions of a quiz, Meta.ordering = ['id'].
QuestionIds(quiz) == {id \in Visible(questions) : questions[id].quiz = quiz}

RECURSIVE Ascending(_)
Ascending(ids) ==
    IF ids = {} THEN <<>>
    ELSE LET least == CHOOSE i \in ids : \A j \in ids : i <= j
         IN <<least>> \o Ascending(ids \ {least})

RECURSIVE Descending(_)
Descending(ids) ==
    IF ids = {} THEN <<>>
    ELSE LET most == CHOOSE i \in ids : \A j \in ids : i >= j
         IN <<most>> \o Descending(ids \ {most})

(***************************************************************************)
(* Requests. Each worker serves one request at a time; pc is the place in  *)
(* CreateQuizView.post the request has reached. steps and calls record the *)
(* pipeline steps begun and the outbound calls made, in order.             *)
(***************************************************************************)
IdleReq ==
    [pc |-> "idle", op |-> "", user |-> "", url |-> None, normalized |-> None,
     heard |-> NoText, transcript |-> NoText, quiz_json |-> JNull, quiz |-> 0, qi |-> 0,
     exc |-> NoExc, status |-> 0, key |-> "", detail |-> "", body |-> <<>>,
     steps |-> <<>>, calls |-> <<>>]

Respond(r, status, key, detail, body) ==
    [r EXCEPT !.pc = "done", !.status = status, !.key = key, !.detail = detail, !.body = body]

\* Variant: the exception is swallowed and the step is taken again.
HandleExceptionRetries(r, exc) == [r EXCEPT !.exc = exc]

\* except ValueError as e: 400 {"detail": str(e)}; except Exception as e: 500 {"detail": str(e)}
HandleException(r, exc) ==
    IF exc.type = "ValueError"
    THEN Respond([r EXCEPT !.exc = exc], 400, "detail", exc.msg, <<>>)
    ELSE Respond([r EXCEPT !.exc = exc], 500, "detail", exc.msg, <<>>)

Step(r, name) == [r EXCEPT !.steps = Append(@, name)]
Call(r, name) == [r EXCEPT !.calls = Append(@, name)]

\* The parts of the program a run does not exercise stay as they start.
OthersAtRest ==
    /\ tmpfs = <<>>
    /\ acq = <<>>
    /\ call = <<>>
    /\ accounts = <<>>
    /\ reg = <<>>
    /\ tokens = <<>>
    /\ auth = <<>>

Init ==
    /\ apiKeySet \in BOOLEAN
    /\ quizzes = <<>>
    /\ questions = <<>>
    /\ nextQuizId = 1
    /\ nextQuestionId = 1
    /\ req = [w \in Workers |-> IdleReq]
    /\ OthersAtRest

\* POST createQuiz/: the serializer accepts the body or answers 400.
Post(w) ==
    /\ req[w].pc = "idle"
    /\ nextQuizId <= MaxQuizzes
    /\ \E body \in SamplePosts :
          LET user == body.user
              url == body.url
              r == [IdleReq EXCEPT !.op = "create", !.user = user, !.url = url] IN
          req' = [req EXCEPT ![w] =
                    IF url = None
                    THEN Respond(r, 400, "url", "Enter a valid URL.", <<>>)
                    ELSE [r EXCEPT !.pc = "normalize"]]
    /\ UNCHANGED <<apiKeySet, quizzes, questions, nextQuizId, nextQuestionId>>
    /\ UNCHANGED otherVars

Normalize(w) ==
    /\ req[w].pc = "normalize"
    /\ LET r == Step(req[w], "normalize")
           normalized_url == normalize_youtube_url(r.url)
       IN req' = [req EXCEPT ![w] =
                    IF normalized_url = None
                    THEN Respond(r, 400, "error", "Invalid YouTube URL.", <<>>)
                    ELSE [r EXCEPT !.pc = "transcript", !.normalized = normalized_url]]
    /\ UNCHANGED <<apiKeySet, quizzes, questions, nextQuizId, nextQuestionId>>
    /\ UNCHANGED otherVars

\* if not transcript or len(transcript.strip()) < 50: 400 "No Transcript Found."
TranscriptGate(r, transcript) ==
    IF TranscriptRejected(transcript)
    THEN Respond(r, 400, "detail", "No Transcript Found.", <<>>)
    ELSE [r EXCEPT !.pc = "generate", !.transcript = transcript]

\* What the external tools of _get_transcript_with_ytdlp_and_whisper do.
ToolOutcomes == {"DownloadError", "no id", "no file", "CalledProcessError", "transcribed"}

Transcript(w) ==
    /\ req[w].pc = "transcript"
    /\ \E outcome \in ToolOutcomes, text \in SampleWhisperTexts :
          LET r == Call(Step(req[w], "transcript"), "yt-dlp") IN
          req' = [req EXCEPT ![w] =
                    CASE outcome = "DownloadError" ->
                           HandleException(r, [type |-> "DownloadError",
                                               msg |-> "ERROR: [youtube] Video unavailable"])
                      [] outcome \in {"no id", "no file"} ->
                           TranscriptGate(r, NoText)
                      [] outcome = "CalledProcessError" ->
                           HandleException(r, [type |-> "CalledProcessError",
                                               msg |-> "Command '['ffmpeg', ...]' returned non-zero exit status 1."])
                      [] outcome = "transcribed" ->
                           TranscriptGate([r EXCEPT !.heard = text], WhisperResult(text))]
    /\ UNCHANGED <<apiKeySet, quizzes, questions, nextQuizId, nextQuestionId>>
    /\ UNCHANGED otherVars

\* What client.models.generate_content does.
ModelOutcomes == {"APIError", "replied"}

\* _generate_quiz_with_gemini, after the call returned result.text = text
ParseReply(r, text) ==
    LET raw == Strip(IF text = None THEN <<>> ELSE text)
        loaded == JsonLoads(strip_json_fences(raw))
    IN IF raw = <<>>
       THEN HandleException(r, ValueError("AI has failed the Job: Empty response from model."))
       ELSE IF loaded.exc # NoExc
       THEN HandleException(r, ValueError("AI has failed the Job: Expecting value"))
       ELSE [r EXCEPT !.pc = "validate", !.quiz_json = loaded.value]

\* Variant: the credential is checked after the model has been called.
MissingKeyAfterCall(r) ==
    HandleException([r EXCEPT !.calls = Append(@, "gemini")],
                    ValueError("GEMINI_API_KEY is not set."))

\* if not GEMINI_API_KEY: raise ValueError, before the client is built
MissingKey(r) == HandleException(r, ValueError("GEMINI_API_KEY is not set."))

Generate(w) ==
    /\ req[w].pc = "generate"
    /\ LET r == [Step(req[w], "generate") EXCEPT !.heard = NoText, !.transcript = NoText] IN
       IF ~apiKeySet
       THEN req' = [req EXCEPT ![w] = MissingKey(r)]
       ELSE \E outcome \in ModelOutcomes, text \in SampleReplies :
               req' = [req EXCEPT ![w] =
                         IF outcome = "APIError"
                         THEN HandleException(Call(r, "gemini"),
                                              [type |-> "APIError", msg |-> "503 UNAVAILABLE"])
                         ELSE ParseReply(Call(r, "gemini"), text)]
    /\ UNCHANGED <<apiKeySet, quizzes, questions, nextQuizId, nextQuestionId>>
    /\ UNCHANGED otherVars

Validate(w) ==
    /\ req[w].pc = "validate"
    /\ LET r == Step(req[w], "validate")
           exc == validate_quiz_json(r.quiz_json)
       IN req' = [req EXCEPT ![w] =
                    IF exc # NoExc THEN HandleException(r, exc)
                    ELSE [r EXCEPT !.pc = "persist"]]
    /\ UNCHANGED <<apiKeySet, quizzes, questions, nextQuizId, nextQuestionId>>
    /\ UNCHANGED otherVars

\* An exception inside the atomic block: roll back, then the handlers of post.
AbortTransaction(w, r, exc) ==
    /\ quizzes' = Rollback(quizzes, w)
    /\ questions' = Rollback(questions, w)
    /\ req' = [req EXCEPT ![w] = HandleException(r, exc)]

\* with transaction.atomic(): quiz = Quiz.objects.create(...)
InsertQuiz(w) ==
    /\ req[w].pc = "persist"
    /\ req[w].quiz = 0
    /\ LET r == Step(req[w], "persist")
           data == r.quiz_json.d
       IN \E fault \in BOOLEAN :
             IF fault
             THEN /\ AbortTransaction(w, r, DatabaseError("database is locked"))
                  /\ UNCHANGED nextQuizId
             ELSE IF ~(NotNull(data.title) /\ NotNull(data.description))
             THEN /\ AbortTransaction(w, r, DatabaseError("NOT NULL constraint failed"))
                  /\ UNCHANGED nextQuizId
             ELSE /\ quizzes' = quizzes @@
                        (nextQuizId :> QuizRow(r.user, r.quiz_json, r.normalized, w))
                  /\ nextQuizId' = nextQuizId + 1
                  /\ req' = [req EXCEPT ![w] = [r EXCEPT !.quiz = nextQuizId]]
                  /\ UNCHANGED questions
    /\ UNCHANGED <<apiKeySet, nextQuestionId>>
    /\ UNCHANGED otherVars

\* for q in quiz_json["questions"]: Question.objects.create(quiz=quiz, ...)
InsertQuestion(w) ==
    /\ req[w].pc = "persist"
    /\ req[w].quiz # 0
    /\ req[w].qi < Len(req[w].quiz_json.d.questions.l)
    /\ LET r == req[w]
           q == r.quiz_json.d.questions.l[r.qi + 1]
       IN \E fault \in BOOLEAN :
             IF fault
             THEN /\ AbortTransaction(w, r, DatabaseError("database is locked"))
                  /\ UNCHANGED nextQuestionId
             ELSE IF ~(NotNull(q.d.question_title) /\ NotNull(q.d.answer))
             THEN /\ AbortTransaction(w, r, DatabaseError("NOT NULL constraint failed"))
                  /\ UNCHANGED nextQuestionId
             ELSE /\ questions' = questions @@
                        (nextQuestionId :> QuestionRow(r.quiz, q, w))
                  /\ nextQuestionId' = nextQuestionId + 1
                  /\ req' = [req EXCEPT ![w] = [r EXCEPT !.qi = r.qi + 1]]
                  /\ UNCHANGED quizzes
    /\ UNCHANGED <<apiKeySet, nextQuizId>>
    /\ UNCHANGED otherVars

\* The atomic block ends: commit, then 201 with QuizSerializer(quiz).data.
CommitQuiz(w) ==
    /\ req[w].pc = "persist"
    /\ req[w].quiz # 0
    /\ req[w].qi = Len(req[w].quiz_json.d.questions.l)
    /\ \E fault \in BOOLEAN :
          IF fault
          THEN AbortTransaction(w, req[w], DatabaseError("could not commit"))
          ELSE /\ quizzes' = Commit(quizzes, w)
               /\ questions' = Commit(questions, w)
               /\ req' = [req EXCEPT ![w] = Respond(req[w], 201, "", "", <<req[w].quiz>>)]
    /\ UNCHANGED <<apiKeySet, nextQuizId, nextQuestionId>>
    /\ UNCHANGED otherVars

\* The response is sent and the worker takes the next request.
Finish(w) ==
    /\ req[w].pc = "done"
    /\ req' = [req EXCEPT ![w] = IdleReq]
    /\ UNCHANGED <<apiKeySet, quizzes, questions, nextQuizId, nextQuestionId>>
    /\ UNCHANGED otherVars

(***************************************************************************)
(* The quiz views: list, detail, patch and delete.                         *)
(***************************************************************************)
\* The ids a request may name: every stored quiz and one id that is not stored.
RequestableIds == Visible(quizzes) \cup {nextQuizId}

AccessDenied(r) ==
    Respond(r, 403, "detail", "Access denied - Quiz does not belong to the user.", <<>>)
NotFound(r) == Respond(r, 404, "detail", "Not found.", <<>>)

\* Variant: the ownership check is missing.
OwnsAny(user, id) == TRUE

\* quiz.user_id != request.user.id refuses the request
Owns(user, id) == quizzes[id].user = user

ListQuizzes(w) ==
    /\ req[w].pc = "idle"
    /\ \E user \in Users :
          LET r == [IdleReq EXCEPT !.op = "list", !.user = user]
              mine == {id \in Visible(quizzes) : quizzes[id].user = user}
          IN req' = [req EXCEPT ![w] = Respond(r, 200, "", "", Descending(mine))]
    /\ UNCHANGED <<apiKeySet, quizzes, questions, nextQuizId, nextQuestionId>>
    /\ UNCHANGED otherVars

GetQuiz(w) ==
    /\ req[w].pc = "idle"
    /\ \E user \in Users, id \in RequestableIds :
          LET r == [IdleReq EXCEPT !.op = "detail", !.user = user, !.quiz = id] IN
          req' = [req EXCEPT ![w] =
                    IF id \notin Visible(quizzes) THEN NotFound(r)
                    ELSE IF ~Owns(user, id) THEN AccessDenied(r)
                    ELSE Respond(r, 200, "", "", <<id>>)]
    /\ UNCHANGED <<apiKeySet, quizzes, questions, nextQuizId, nextQuestionId>>
    /\ UNCHANGED otherVars

\* The bodies of the PATCH requests: any subset of the two writable fields.
PatchBodies ==
    { <<>>, [title |-> "T9"], [description |-> ""], [title |-> ""],
      [title |-> "", description |-> "D9"],
      [title |-> "T9", user |-> "bob", video_url |-> None] }

\* QuizUpdateSerializer.is_valid: title, when given, must not be blank.
PatchValid(data) == "title" \in DOMAIN data => data.title # ""

\* Variant: the serializer declares every field of the model writable.
PatchedAnyField(row, data) ==
    [f \in DOMAIN row |-> IF f \in DOMAIN data THEN data[f] ELSE row[f]]

\* serializer.save(): the fields given replace the stored ones.
Patched(row, data) ==
    [row EXCEPT !.title = IF "title" \in DOMAIN data THEN data.title ELSE @,
                !.description = IF "description" \in DOMAIN data THEN data.description ELSE @]

PatchQuiz(w) ==
    /\ req[w].pc = "idle"
    /\ \E user \in Users, id \in RequestableIds, data \in PatchBodies :
          LET r == [IdleReq EXCEPT !.op = "patch", !.user = user, !.quiz = id] IN
          IF id \notin Visible(quizzes)
          THEN req' = [req EXCEPT ![w] = NotFound(r)] /\ UNCHANGED quizzes
          ELSE IF ~Owns(user, id)
          THEN req' = [req EXCEPT ![w] = AccessDenied(r)] /\ UNCHANGED quizzes
          ELSE IF ~PatchValid(data)
          THEN /\ req' = [req EXCEPT ![w] =
                            Respond(r, 400, "title", "This field may not be blank.", <<>>)]
               /\ UNCHANGED quizzes
          ELSE /\ quizzes' = [quizzes EXCEPT ![id] = Patched(@, data)]
               /\ req' = [req EXCEPT ![w] = Respond(r, 200, "", "", <<id>>)]
    /\ UNCHANGED <<apiKeySet, questions, nextQuizId, nextQuestionId>>
    /\ UNCHANGED otherVars

\* Variant: the foreign key does not cascade; the questions stay behind.
WithoutQuestionsOfNone(table, id) == table

\* quiz.delete(): the row and, by on_delete=CASCADE, its questions.
WithoutQuiz(table, id) == [i \in DOMAIN table \ {id} |-> table[i]]
WithoutQuestionsOf(table, id) ==
    [i \in {j \in DOMAIN table : table[j].quiz # id} |-> table[i]]

DeleteQuiz(w) ==
    /\ req[w].pc = "idle"
    /\ \E user \in Users, id \in RequestableIds :
          LET r == [IdleReq EXCEPT !.op = "delete", !.user = user, !.quiz = id] IN
          IF id \notin Visible(quizzes)
          THEN req' = [req EXCEPT ![w] = NotFound(r)] /\ UNCHANGED <<quizzes, questions>>
          ELSE IF ~Owns(user, id)
          THEN req' = [req EXCEPT ![w] = AccessDenied(r)] /\ UNCHANGED <<quizzes, questions>>
          ELSE /\ quizzes' = WithoutQuiz(quizzes, id)
               /\ questions' = WithoutQuestionsOf(questions, id)
               /\ req' = [req EXCEPT ![w] = Respond(r, 204, "", "", <<>>)]
    /\ UNCHANGED <<apiKeySet, nextQuizId, nextQuestionId>>
    /\ UNCHANGED otherVars

Next ==
    \E w \in Workers :
        \/ Post(w)
        \/ Normalize(w)
        \/ Transcript(w)
        \/ Generate(w)
        \/ Validate(w)
        \/ InsertQuiz(w)
        \/ InsertQuestion(w)
        \/ CommitQuiz(w)
        \/ Finish(w)
        \/ ListQuizzes(w)
        \/ GetQuiz(w)
        \/ PatchQuiz(w)
        \/ DeleteQuiz(w)

Spec == Init /\ [][Next]_vars

(***************************************************************************)
(* Transcript acquisition, statement by statement: the temporary directory *)
(* of _get_transcript_with_ytdlp_and_whisper and the files the tools write *)
(* into it. tmpfs maps each directory on disk to the set of its files.     *)
(***************************************************************************)
Pair == {"w1", "w2"}
TmpNames == {"/tmp/tmpa", "/tmp/tmpb", "/tmp/tmpc"}

File(stem, ext) == [stem |-> stem, ext |-> ext]

IdleAcq == [pc |-> "idle", tmp |-> "", video_id |-> "", downloaded |-> File("", ""),
            result |-> NoText, exc |-> NoExc]

\* Variant: os.rmdir in place of the recursive removal; it removes nothing
\* from a directory that holds a file.
CleanupWhenEmpty(fs, tmp) ==
    IF fs[tmp] = {} THEN [d \in DOMAIN fs \ {tmp} |-> fs[d]] ELSE fs

\* TemporaryDirectory.__exit__: the directory and everything in it is removed.
Cleanup(fs, tmp) == [d \in DOMAIN fs \ {tmp} |-> fs[d]]

\* return value: leaves the with block, then the call returns.
ReturnFrom(w, value) ==
    /\ tmpfs' = Cleanup(tmpfs, acq[w].tmp)
    /\ acq' = [acq EXCEPT ![w] = [@ EXCEPT !.pc = "returned", !.result = value]]

\* An exception leaves the with block, then propagates to the caller.
RaiseFrom(w, exc) ==
    /\ tmpfs' = Cleanup(tmpfs, acq[w].tmp)
    /\ acq' = [acq EXCEPT ![w] = [@ EXCEPT !.pc = "raised", !.exc = exc]]

\* with tempfile.TemporaryDirectory() as tmp: a fresh directory is made.
EnterTemporaryDirectory(w) ==
    /\ acq[w].pc = "idle"
    /\ \E tmp \in TmpNames \ DOMAIN tmpfs :
          /\ tmpfs' = tmpfs @@ (tmp :> {})
          /\ acq' = [acq EXCEPT ![w] = [IdleAcq EXCEPT !.pc = "download", !.tmp = tmp]]
    /\ UNCHANGED <<quizVars, call, accounts, reg, tokens, auth>>

\* What yt-dlp leaves in the directory: nothing, a partial file, the audio
\* of the video, the audio of another video.
DownloadedFiles ==
    { {}, {File("vid", "webm.part")}, {File("vid", "webm")}, {File("zzz", "webm")},
      {File("vid", "webm"), File("vid", "info.json")} }

\* ydl.extract_info(url, download=True); video_id = info.get("id");
\* if not video_id: return None
ExtractInfo(w) ==
    /\ acq[w].pc = "download"
    /\ \E files \in DownloadedFiles, outcome \in {"DownloadError", "no id", "id"} :
          LET written == [tmpfs EXCEPT ![acq[w].tmp] = files] IN
          CASE outcome = "DownloadError" ->
                 /\ tmpfs' = Cleanup(written, acq[w].tmp)
                 /\ acq' = [acq EXCEPT ![w] =
                              [@ EXCEPT !.pc = "raised",
                                        !.exc = [type |-> "DownloadError",
                                                 msg |-> "ERROR: [youtube] Video unavailable"]]]
            [] outcome = "no id" ->
                 /\ tmpfs' = Cleanup(written, acq[w].tmp)
                 /\ acq' = [acq EXCEPT ![w] = [@ EXCEPT !.pc = "returned", !.result = NoText]]
            [] outcome = "id" ->
                 /\ tmpfs' = written
                 /\ acq' = [acq EXCEPT ![w] = [@ EXCEPT !.pc = "listdir", !.video_id = "vid"]]
    /\ UNCHANGED <<quizVars, call, accounts, reg, tokens, auth>>

\* for f in os.listdir(tmp): if f.startswith(video_id + "."): downloaded = f; break
\* if not downloaded or not os.path.isfile(downloaded): return None
FindDownloaded(w) ==
    /\ acq[w].pc = "listdir"
    /\ LET found == {f \in tmpfs[acq[w].tmp] : f.stem = acq[w].video_id} IN
       IF found = {}
       THEN ReturnFrom(w, NoText)
       ELSE \E f \in found :
               /\ acq' = [acq EXCEPT ![w] = [@ EXCEPT !.pc = "ffmpeg", !.downloaded = f]]
               /\ UNCHANGED tmpfs
    /\ UNCHANGED <<quizVars, call, accounts, reg, tokens, auth>>

\* subprocess.run(["ffmpeg", ..., wav_path], check=True): the wav file is
\* written, or ffmpeg exits non-zero, with or without a part of the file.
RunFfmpeg(w) ==
    /\ acq[w].pc = "ffmpeg"
    /\ \E ok \in BOOLEAN, wrote \in BOOLEAN :
          LET wav == File(acq[w].video_id, "wav")
              written == IF wrote \/ ok
                         THEN [tmpfs EXCEPT ![acq[w].tmp] = @ \cup {wav}]
                         ELSE tmpfs
          IN IF ok
             THEN /\ tmpfs' = written
                  /\ acq' = [acq EXCEPT ![w] = [@ EXCEPT !.pc = "whisper"]]
             ELSE /\ tmpfs' = Cleanup(written, acq[w].tmp)
                  /\ acq' = [acq EXCEPT ![w] =
                               [@ EXCEPT !.pc = "raised",
                                         !.exc = [type |-> "CalledProcessError",
                                                  msg |-> "returned non-zero exit status 1."]]]
    /\ UNCHANGED <<quizVars, call, accounts, reg, tokens, auth>>

\* model = whisper.load_model("base"); result = model.transcribe(wav_path);
\* text = (result.get("text") or "").strip(); return text if len(text) >= 50 else None
Transcribe(w) ==
    /\ acq[w].pc = "whisper"
    /\ \E ok \in BOOLEAN, text \in SampleWhisperTexts :
          IF ok
          THEN ReturnFrom(w, WhisperResult(text))
          ELSE RaiseFrom(w, [type |-> "RuntimeError", msg |-> "CUDA out of memory"])
    /\ UNCHANGED <<quizVars, call, accounts, reg, tokens, auth>>

\* The caller has the value or the exception; the worker takes the next call.
AcquireDone(w) ==
    /\ acq[w].pc \in {"returned", "raised"}
    /\ acq' = [acq EXCEPT ![w] = IdleAcq]
    /\ UNCHANGED <<quizVars, tmpfs, call, accounts, reg, tokens, auth>>

QuizAtRest ==
    /\ apiKeySet = TRUE
    /\ quizzes = <<>>
    /\ questions = <<>>
    /\ nextQuizId = 1
    /\ nextQuestionId = 1
    /\ req = [w \in Workers |-> IdleReq]

InitTranscript ==
    /\ QuizAtRest
    /\ tmpfs = <<>>
    /\ acq = [w \in Pair |-> IdleAcq]
    /\ call = <<>>
    /\ accounts = <<>>
    /\ reg = <<>>
    /\ tokens = <<>>
    /\ auth = <<>>

NextTranscript ==
    \E w \in Pair :
        \/ EnterTemporaryDirectory(w)
        \/ ExtractInfo(w)
        \/ FindDownloaded(w)
        \/ RunFfmpeg(w)
        \/ Transcribe(w)
        \/ AcquireDone(w)

SpecTranscript == InitTranscript /\ [][NextTranscript]_vars

(***************************************************************************)
(* Properties.                                                             *)
(***************************************************************************)
PipelineSteps == <<"normalize", "transcript", "generate", "validate", "persist">>

IsPrefix(a, b) == Len(a) <= Len(b) /\ a = SubSeq(b, 1, Len(a))
Last(q) == q[Len(q)]

Creating == {w \in Workers : req[w].op = "create"}
Finished(w) == req[w].pc = "done"
Failed(w) == Finished(w) /\ req[w].status # 201

\* The committed rows of a table.
CommittedRows(table) == [id \in Visible(table) |-> table[id]]

\* The number of steps that precede the place pc in the pipeline.
StepsBefore(pc) ==
    CASE pc = "normalize" -> {0}
      [] pc = "transcript" -> {1}
      [] pc = "generate" -> {2}
      [] pc = "validate" -> {3}
      [] pc = "persist" -> {4, 5}
      [] OTHER -> 0..5

\* C1. The steps a create request has begun are a prefix of normalize,
\* transcript, generate, validate, persist, so each is taken at most once and
\* in this order; a request stands at a step only after exactly the steps
\* before it, answers 201 only after all five, and once it has answered
\* (the first failure, or success) it begins no further step.
C1_StepsArePrefix ==
    /\ [](\A w \in Creating :
            /\ IsPrefix(req[w].steps, PipelineSteps)
            /\ Len(req[w].steps) \in StepsBefore(req[w].pc)
            /\ req[w].status = 201 => req[w].steps = PipelineSteps)
    /\ [][\A w \in Workers :
            /\ Finished(w) => req'[w] = req[w] \/ req'[w] = IdleReq
            /\ req'[w].steps # req[w].steps =>
                  \/ req'[w].steps = <<>>
                  \/ \E name \in SeqRange(PipelineSteps) :
                        req'[w].steps = Append(req[w].steps, name)]_vars

C1_FailedAtValidate ==
    \E w \in Creating :
        /\ Failed(w)
        /\ req[w].status = 400
        /\ req[w].steps = SubSeq(PipelineSteps, 1, 4)

\* C2. Persistence is all-or-nothing: after a create request has failed, no
\* quiz row and no question row of its attempt is in storage, committed or
\* not; and the step at which the writes fail leaves the committed rows of
\* both tables exactly as they were.
C2_AllOrNothing ==
    /\ [](\A w \in Creating :
            Failed(w) =>
               /\ \A id \in DOMAIN quizzes : quizzes[id].tx # w
               /\ \A id \in DOMAIN questions : questions[id].tx # w
               /\ req[w].quiz # 0 =>
                     /\ req[w].quiz \notin DOMAIN quizzes
                     /\ \A id \in DOMAIN questions : questions[id].quiz # req[w].quiz)
    /\ [][\A w \in Workers :
            (req[w].pc = "persist" /\ req'[w].pc = "done" /\ req'[w].status # 201) =>
               /\ CommittedRows(quizzes') = CommittedRows(quizzes)
               /\ CommittedRows(questions') = CommittedRows(questions)]_vars

C2_SeventhQuestionFailed ==
    \E w \in Creating :
        /\ Failed(w)
        /\ req[w].status = 500
        /\ req[w].quiz # 0
        /\ req[w].qi = 6
        /\ Visible(quizzes) # {}

\* The stored quiz of a create request that answered 201 is what was drafted.
StoredAsDrafted(r) ==
    LET draft == r.quiz_json.d
        ids == Ascending(QuestionIds(r.quiz))
    IN /\ r.quiz \in Visible(quizzes)
       /\ r.body = <<r.quiz>>
       /\ quizzes[r.quiz].user = r.user
       /\ quizzes[r.quiz].video_url = normalize_youtube_url(r.url)
       /\ draft.title.t = "str" => quizzes[r.quiz].title = draft.title.s
       /\ draft.description.t = "str" => quizzes[r.quiz].description = draft.description.s
       /\ Len(ids) = NumQuestions
       /\ \A i \in 1..Len(ids) :
             /\ JStr(questions[ids[i]].question_title) = draft.questions.l[i].d.question_title
             /\ questions[ids[i]].question_options = draft.questions.l[i].d.question_options.l

\* C3. A create request whose url normalizes, whose transcript passed the
\* floor and whose draft the validator accepts answers 201 unless storage
\* fails; and a request that answered 201 has stored exactly one new quiz,
\* owned by the requesting user, with the canonical url, the draft's title and
\* description and its 10 questions, questions and options in draft order.
C3_StoredAsDrafted ==
    /\ [](\A w \in Creating :
            /\ (Finished(w) /\ req[w].status = 201) => StoredAsDrafted(req[w])
            /\ ( /\ Finished(w)
                 /\ "validate" \in SeqRange(req[w].steps)
                 /\ validate_quiz_json(req[w].quiz_json) = NoExc
                 /\ req[w].exc.type # "DatabaseError" ) => req[w].status = 201)
    /\ [][\A w \in Workers :
            (req[w].pc = "persist" /\ req'[w].status = 201) =>
               /\ Visible(quizzes') \ Visible(quizzes) = {req[w].quiz}
               /\ Visible(quizzes) \subseteq Visible(quizzes')
               /\ Cardinality(Visible(questions') \ Visible(questions)) = NumQuestions
               /\ \A id \in Visible(questions') \ Visible(questions) :
                     questions'[id].quiz = req[w].quiz]_vars

C3_QuizStored ==
    \E w \in Creating :
        /\ Finished(w)
        /\ req[w].status = 201
        /\ req[w].quiz_json = DraftStr
        /\ req[w].user = "bob"
        /\ req[w].url = UrlShort

\* The schema the validator enforces, read off the stored rows of a quiz.
StoredQuizValid(id) ==
    /\ Cardinality(QuestionIds(id)) = NumQuestions
    /\ \A q \in QuestionIds(id) :
          /\ Len(questions[q].question_options) = NumOptions
          /\ Cardinality(SeqRange(questions[q].question_options)) = NumOptions
          /\ JStr(questions[q].answer) \in SeqRange(questions[q].question_options)

\* C4. In every committed storage state every stored quiz has exactly 10
\* questions, each with exactly 4 pairwise distinct options and an answer that
\* is one of its options; and a create request that fails leaves the committed
\* rows unchanged.
C4_StoredQuizzesValid ==
    /\ [](\A id \in Visible(quizzes) : StoredQuizValid(id))
    /\ [][\A w \in Workers :
            (req'[w].op = "create" /\ req'[w].pc = "done" /\ req'[w].status # 201
               /\ req[w].pc # "done") =>
               /\ CommittedRows(quizzes') = CommittedRows(quizzes)
               /\ CommittedRows(questions') = CommittedRows(questions)]_vars

\* The quiz views of a worker that has just answered.
Answered(w, ops) == Finished(w) /\ req[w].op \in ops

\* C5. Ownership isolation: a list answers exactly the committed quizzes of
\* the requesting user; a detail answers a quiz only to its owner; a detail,
\* patch or delete that names a stored quiz of another user is answered 403
\* with no quiz and changes no row; and whenever a stored quiz or one of its
\* questions changes or disappears, the step is a patch or delete of that
\* quiz by its owner.
C5_OwnershipIsolation ==
    /\ [](\A w \in Workers :
            /\ Answered(w, {"list"}) =>
                  SeqRange(req[w].body) =
                     {id \in Visible(quizzes) : quizzes[id].user = req[w].user}
            /\ (Answered(w, {"detail"}) /\ req[w].status = 200) =>
                  /\ req[w].body = <<req[w].quiz>>
                  /\ quizzes[req[w].quiz].user = req[w].user)
    /\ [][/\ \A w \in Workers :
               ( /\ req[w].pc = "idle"
                 /\ req'[w].op \in {"detail", "patch", "delete"}
                 /\ req'[w].quiz \in Visible(quizzes)
                 /\ quizzes[req'[w].quiz].user # req'[w].user ) =>
                    /\ req'[w].status = 403
                    /\ req'[w].body = <<>>
                    /\ quizzes' = quizzes
                    /\ questions' = questions
          /\ \A id \in Visible(quizzes) :
               ( \/ id \notin Visible(quizzes')
                 \/ quizzes'[id] # quizzes[id]
                 \/ \E q \in QuestionIds(id) :
                       q \notin DOMAIN questions' \/ questions'[q] # questions[q] ) =>
                    \E w \in Workers :
                       /\ req[w].pc = "idle"
                       /\ req'[w].op \in {"patch", "delete"}
                       /\ req'[w].quiz = id
                       /\ req'[w].user = quizzes[id].user]_vars

C5_DeleteRefused ==
    \E w \in Workers :
        /\ Answered(w, {"delete"})
        /\ req[w].status = 403
        /\ req[w].quiz \in Visible(quizzes)
        /\ quizzes[req[w].quiz].user = "alice"
        /\ req[w].user = "bob"

\* The step at which a failed create request failed.
FailedStep(r) == IF r.steps = <<>> THEN "serializer" ELSE Last(r.steps)

\* Exceptions that belong to no failure class of the pipeline's steps.
UnexpectedTypes == {"APIError", "TypeError"}

\* C6. A create request that fails is answered 400 when the body, the url
\* normalization, the transcript acquisition, the AI generation or parsing or
\* the schema validation failed, and 500 when storage or an unexpected fault
\* failed; it is answered 201 only with its transaction committed.
C6_FailureClasses ==
    \A w \in Creating :
        Finished(w) =>
           /\ req[w].status \in {201, 400, 500}
           /\ req[w].status = 201 => req[w].quiz \in Visible(quizzes)
           /\ Failed(w) =>
                 IF FailedStep(req[w]) = "persist" \/ req[w].exc.type \in UnexpectedTypes
                 THEN req[w].status = 500
                 ELSE req[w].status = 400

\* The failures of the external tools of transcript acquisition.
ToolFailures == {"DownloadError", "CalledProcessError"}

\* C7. A create request whose transcript acquisition failed in an external
\* tool (download, missing audio, transcoder exit status) is answered 400
\* "No Transcript Found.", never 500 and never with the tool's own message.
C7_ToolFailuresNormalized ==
    \A w \in Creating :
        (Failed(w) /\ FailedStep(req[w]) = "transcript") =>
           /\ req[w].status = 400
           /\ req[w].detail = "No Transcript Found."
           /\ req[w].exc.type \in ToolFailures => req[w].detail # req[w].exc.msg

\* C8. A create request that ends by an exception outside the client-facing
\* taxonomy is answered 500 with a generic message, not the exception's text.
C8_GenericServerFault ==
    \A w \in Creating :
        (Failed(w) /\ req[w].exc.type \notin {"", "ValueError"}) =>
           /\ req[w].status = 500
           /\ req[w].detail # req[w].exc.msg

\* The transcript-acquisition result of a request, trimmed: its length, and
\* -1 when there is none.
HeardLen(r) == IF r.heard = NoText THEN 0 - 1 ELSE TextLen(StripRuns(r.heard))

\* C9. Transcript floor: the transcript step, when no tool raised, sends the
\* request on to generation exactly when the acquired text has at least 50
\* characters after trimming; otherwise it answers 400 "No Transcript Found."
\* with storage unchanged, and such a request never calls the model.
C9_TranscriptFloor ==
    /\ [](\A w \in Creating :
            /\ req[w].pc = "generate" =>
                  /\ HeardLen(req[w]) >= MinTranscriptLen
                  /\ req[w].transcript = StripRuns(req[w].heard)
            /\ (Failed(w) /\ FailedStep(req[w]) = "transcript"
                  /\ req[w].exc = NoExc) =>
                  /\ HeardLen(req[w]) < MinTranscriptLen
                  /\ req[w].status = 400
                  /\ req[w].detail = "No Transcript Found."
                  /\ req[w].calls = <<"yt-dlp">>
                  /\ "generate" \notin SeqRange(req[w].steps))
    /\ [][\A w \in Workers :
            (req[w].pc = "transcript" /\ req'[w].exc = NoExc) =>
               IF HeardLen(req'[w]) >= MinTranscriptLen
               THEN req'[w].pc = "generate"
               ELSE /\ req'[w].pc = "done"
                    /\ req'[w].detail = "No Transcript Found."
                    /\ quizzes' = quizzes
                    /\ questions' = questions]_vars

C9_RejectedBelowFloor ==
    \E w \in Creating :
        /\ Failed(w)
        /\ req[w].detail = "No Transcript Found."
        /\ req[w].heard = <<Run(FALSE, MinTranscriptLen - 1), Run(TRUE, 1)>>

MissingKeyRaised(w) == req[w].exc = ValueError("GEMINI_API_KEY is not set.")

\* C10 as claimed. When the missing-credential failure is raised, no outbound
\* call has been made, neither the download nor the model call.
C10_NoCallBeforeKeyCheck ==
    \A w \in Creating : MissingKeyRaised(w) => req[w].calls = <<>>

\* C10. Without the credential the model is never called: the request fails
\* with the missing-credential failure, answered 400, before any call to the
\* generative model; the download of the transcript step has been made.
C10_NoModelCallWithoutKey ==
    \A w \in Creating :
        /\ ~apiKeySet => "gemini" \notin SeqRange(req[w].calls)
        /\ (~apiKeySet /\ Finished(w) /\ FailedStep(req[w]) = "generate") => MissingKeyRaised(w)
        /\ MissingKeyRaised(w) =>
              /\ req[w].status = 400
              /\ req[w].calls = <<"yt-dlp">>

C10_KeyMissing ==
    \E w \in Creating : MissingKeyRaised(w) /\ Finished(w)

(***************************************************************************)
(* The pure helpers applied to arguments: call holds the helper's name,    *)
(* the argument, and, once applied, what it returned or raised.            *)
(***************************************************************************)
\* The ways a question of a draft departs from the schema.
QuestionDefects ==
    { "not a mapping", "no answer", "no options", "options not a list", "3 options",
      "5 options", "duplicate", "answer outside", "duplicate, answer outside",
      "3 options, duplicate", "list option", "list option twice", "number options" }

\* The i-th question of a draft, with one defect.
DefectiveQuestion(i, kind) ==
    LET title == JStr(QTitles[i])
        A == JStr("A")
        B == JStr("B")
        C == JStr("C")
        D == JStr("D")
        E == JStr("E")
    IN CASE kind = "not a mapping" -> JList(<<title, A, B, C, D>>)
         [] kind = "no answer" ->
              JDict([question_title |-> title, question_options |-> JList(<<A, B, C, D>>)])
         [] kind = "no options" -> JDict([question_title |-> title, answer |-> A])
         [] kind = "options not a list" ->
              JDict([question_title |-> title, question_options |-> JStr("ABCD"), answer |-> A])
         [] kind = "3 options" -> Question(QTitles[i], <<A, B, C>>, A)
         [] kind = "5 options" -> Question(QTitles[i], <<A, B, C, D, E>>, E)
         [] kind = "duplicate" -> Question(QTitles[i], <<A, A, B, C>>, A)
         [] kind = "answer outside" -> Question(QTitles[i], <<A, B, C, D>>, E)
         [] kind = "duplicate, answer outside" -> Question(QTitles[i], <<A, B, C, C>>, E)
         [] kind = "3 options, duplicate" -> Question(QTitles[i], <<A, B, B>>, D)
         [] kind = "list option" -> Question(QTitles[i], <<A, JList(<<B>>), C, D>>, A)
         [] kind = "list option twice" ->
              Question(QTitles[i], <<JList(<<B>>), JList(<<B>>), C, D>>, C)
         [] kind = "number options" -> Question(QTitles[i], NumOpts(i), NumOpts(i)[2])

\* Drafts whose top level departs from the schema, some with a defective
\* question as well.
TopLevelDrafts ==
    { DraftTopList, JStr("quiz"), JNull, JNum("10"), JDict(<<>>),
      JDict([title |-> JStr("T1")]),
      JDict([questions |-> JList(StrQuestions(NumQuestions))]),
      JDict([title |-> JStr("T1"), description |-> JStr("D1")]),
      JDict([description |-> JStr("D1"), questions |-> JList(<<>>)]),
      DraftNoDescription, DraftQuestionsNotList, DraftNullTitle,
      Draft(JStr("T1"), JStr("D1"), <<>>), DraftNine, DraftEleven,
      Draft(JStr("T1"), JStr("D1"),
            WithQuestion(StrQuestions(NumQuestions - 1), 1, DefectiveQuestion(1, "duplicate"))),
      Draft(JStr("T1"), JStr("D1"),
            WithQuestion(DraftEleven.d.questions.l, 1, DefectiveQuestion(1, "not a mapping"))),
      JDict([title |-> JStr("T1"),
             questions |-> JList(WithQuestion(StrQuestions(NumQuestions), 2,
                                              DefectiveQuestion(2, "3 options")))]) }

\* Drafts of 10 questions with no, one or two defective questions.
ValidatorInputs ==
    {DraftStr, DraftNum}
    \cup TopLevelDrafts
    \cup { Draft(JStr("T1"), JStr("D1"),
                 WithQuestion(StrQuestions(NumQuestions), i, DefectiveQuestion(i, k))) :
              i \in 1..NumQuestions, k \in QuestionDefects }
    \cup { Draft(JStr("T1"), JStr("D1"),
                 WithQuestion(WithQuestion(StrQuestions(NumQuestions), i, DefectiveQuestion(i, k)),
                              NumQuestions + 1 - i, DefectiveQuestion(NumQuestions + 1 - i, k2))) :
              i \in 1..NumQuestions, k \in QuestionDefects, k2 \in QuestionDefects }

NotApplied == [exc |-> NoExc, value |-> <<>>]

\* _validate_quiz_json(quiz_json): returns nothing or raises.
ApplyValidate ==
    /\ call.fn = "validate_quiz_json"
    /\ ~call.done
    /\ call' = [call EXCEPT !.done = TRUE,
                            !.out = [exc |-> validate_quiz_json(call.arg), value |-> <<>>]]
    /\ UNCHANGED <<quizVars, tmpfs, acq, accounts, reg, tokens, auth>>

\* The pieces the urls of the helper's runs are made of: the two markers, a
\* marker with another character in place of the dot, id characters, others.
UrlFragments ==
    { MarkerV, MarkerShort, <<"y","o","u","t","u","-","b","e","/">>,
      <<"a","b","c">>, <<"1","2","_">>, <<"X","y","_","-","7","8","9">>, <<"-">>, <<"&">> }

RECURSIVE Concat(_)
Concat(parts) == IF parts = <<>> THEN <<>> ELSE parts[1] \o Concat(Tail(parts))

NormalizerInputs ==
    UNION { {Concat(parts) : parts \in [1..n -> UrlFragments]} : n \in 0..MaxFragments }

\* normalize_youtube_url(url)
ApplyNormalize ==
    /\ call.fn = "normalize_youtube_url"
    /\ ~call.done
    /\ call' = [call EXCEPT !.done = TRUE,
                            !.out = [exc |-> NoExc, value |-> normalize_youtube_url(call.arg)]]
    /\ UNCHANGED <<quizVars, tmpfs, acq, accounts, reg, tokens, auth>>

\* The language names on the opening fence of the helper's runs, and none.
FenceTags ==
    { <<>>, <<"j","s","o","n">>, <<"J","S","O","N">>, <<"j","s","o","n","5">>,
      <<"c","+","+">> }

\* The structured texts: one-symbol documents and the literal null.
StructuredTexts == {<<"Js">>, <<"J9">>, <<"Jl">>, <<"n","u","l","l">>}

\* An opening fence line with a tag, the text, a closing bare fence.
Wrapped(tag, eol, t, before) == Fence \o tag \o eol \o t \o before \o Fence

\* The texts strip_json_fences is applied to, each with how it was made.
StripInputs ==
    { [text |-> Wrapped(tag, eol, t, before), how |-> "wrapped", tag |-> tag, doc |-> t] :
         tag \in FenceTags, eol \in {<<"\n">>, <<" ", "\n">>}, t \in StructuredTexts,
         before \in {<<>>, <<"\n">>} }
    \cup { [text |-> lead \o Wrapped(tag, <<"\n">>, t, <<"\n">>) \o trail,
            how |-> "padded", tag |-> tag, doc |-> t] :
              tag \in FenceTags, t \in StructuredTexts,
              lead \in {<<" ">>, <<"\n", " ">>}, trail \in {<<>>, <<"\n">>} }
    \cup { [text |-> lead \o t \o trail, how |-> "plain", tag |-> <<>>, doc |-> t] :
              t \in StructuredTexts \cup {<<"H","i">>, <<>>, <<"H","i","\n">> \o Tagged("Js"),
                                          <<"Js", "\n">> \o Fence, <<"Js", " ", "J9">>},
              lead \in {<<>>, <<" ">>, <<"\n", " ">>}, trail \in {<<>>, <<"\n">>, <<" ", " ">>} }

\* raw = strip_json_fences(raw)
ApplyStrip ==
    /\ call.fn = "strip_json_fences"
    /\ ~call.done
    /\ call' = [call EXCEPT !.done = TRUE,
                            !.out = [exc |-> NoExc, value |-> strip_json_fences(call.arg.text)]]
    /\ UNCHANGED <<quizVars, tmpfs, acq, accounts, reg, tokens, auth>>

ToApply(fn, arg) == [fn |-> fn, arg |-> arg, out |-> NotApplied, done |-> FALSE]

InitPure ==
    /\ QuizAtRest
    /\ \/ \E data \in ValidatorInputs : call = ToApply("validate_quiz_json", data)
       \/ \E url \in NormalizerInputs : call = ToApply("normalize_youtube_url", url)
       \/ \E text \in StripInputs : call = ToApply("strip_json_fences", text)
    /\ tmpfs = <<>>
    /\ acq = <<>>
    /\ accounts = <<>>
    /\ reg = <<>>
    /\ tokens = <<>>
    /\ auth = <<>>

NextPure ==
    \/ ApplyValidate
    \/ ApplyNormalize
    \/ ApplyStrip

SpecPure == InitPure /\ [][NextPure]_vars

(***************************************************************************)
(* Two create requests served at the same time by two workers, their steps *)
(* interleaved in every order.                                             *)
(***************************************************************************)
InitConcurrent ==
    /\ apiKeySet \in BOOLEAN
    /\ quizzes = <<>>
    /\ questions = <<>>
    /\ nextQuizId = 1
    /\ nextQuestionId = 1
    /\ req = [w \in Pair |-> IdleReq]
    /\ OthersAtRest

\* The requests, the transcriptions and the replies of the concurrent runs.
ConcurrentPosts ==
    { [user |-> "alice", url |-> UrlWatch], [user |-> "bob", url |-> UrlShort] }
ConcurrentTexts == { <<Run(FALSE, MinTranscriptLen)>>, <<Run(FALSE, MinTranscriptLen - 1)>> }
ConcurrentReplies == { <<"Js">>, <<"J9">> }

\* The request as the statements of post before the atomic block leave it:
\* serializer, normalization, transcript, generation, validation. They read
\* and write nothing but the request's own data.
BeforeAtomic(body, text, reply, keySet) ==
    LET r0 == [IdleReq EXCEPT !.op = "create", !.user = body.user, !.url = body.url]
        r1 == Step(r0, "normalize")
        normalized_url == normalize_youtube_url(body.url)
        r2 == Call(Step([r1 EXCEPT !.normalized = normalized_url], "transcript"), "yt-dlp")
        r3 == TranscriptGate([r2 EXCEPT !.heard = text], WhisperResult(text))
        r4 == [Step(r3, "generate") EXCEPT !.heard = NoText, !.transcript = NoText]
        r5 == ParseReply(Call(r4, "gemini"), reply)
        r6 == Step(r5, "validate")
        exc == validate_quiz_json(r6.quiz_json)
    IN IF body.url = None THEN Respond(r0, 400, "url", "Enter a valid URL.", <<>>)
       ELSE IF normalized_url = None
       THEN Respond(r1, 400, "error", "Invalid YouTube URL.", <<>>)
       ELSE IF r3.pc = "done" THEN r3
       ELSE IF ~keySet THEN MissingKey(r4)
       ELSE IF r5.pc = "done" THEN r5
       ELSE IF exc # NoExc THEN HandleException(r6, exc)
       ELSE [r6 EXCEPT !.pc = "persist"]

\* POST createQuiz/ up to the atomic block, taken as one step.
PostToAtomic(w) ==
    /\ req[w].pc = "idle"
    /\ nextQuizId <= MaxQuizzes
    /\ \E body \in ConcurrentPosts, text \in ConcurrentTexts, reply \in ConcurrentReplies :
          req' = [req EXCEPT ![w] = BeforeAtomic(body, text, reply, apiKeySet)]
    /\ UNCHANGED <<apiKeySet, quizzes, questions, nextQuizId, nextQuestionId>>
    /\ UNCHANGED otherVars

\* How often, going through the question rows in id order, the quiz changes:
\* the number of times the two transactions took turns writing.
RECURSIVE Alternations(_, _)
Alternations(table, ids) ==
    IF Len(ids) < 2 THEN 0
    ELSE (IF table[ids[1]].quiz # table[ids[2]].quiz THEN 1 ELSE 0)
         + Alternations(table, Tail(ids))

\* A question insert, in the schedules in which the transactions take turns
\* at most MaxSwitches times.
InsertQuestionInTurn(w) ==
    /\ InsertQuestion(w)
    /\ Alternations(questions', Ascending(DOMAIN questions')) <= MaxSwitches

NextConcurrent ==
    \E w \in Pair :
        \/ PostToAtomic(w)
        \/ InsertQuiz(w)
        \/ InsertQuestionInTurn(w)
        \/ CommitQuiz(w)

SpecConcurrent == InitConcurrent /\ [][NextConcurrent]_vars

\* The acquisitions that hold a temporary directory, and those that ended.
InFlight == {w \in DOMAIN acq : acq[w].pc \in {"download", "listdir", "ffmpeg", "whisper"}}
Ended == {w \in DOMAIN acq : acq[w].pc \in {"returned", "raised"}}

\* C11. Every temporary directory on disk, with the files in it, belongs to
\* exactly one transcript acquisition that has not yet returned; the step by
\* which an acquisition ends (a transcript, no transcript, or an exception of
\* the download, the transcoder or the transcription) removes its directory
\* and all its files and touches no other directory.
C11_TempRemovedOnExit ==
    /\ [](/\ DOMAIN tmpfs = {acq[w].tmp : w \in InFlight}
          /\ Cardinality(DOMAIN tmpfs) = Cardinality(InFlight))
    /\ [][\A w \in InFlight :
            w \in Ended' =>
               /\ acq[w].tmp \notin DOMAIN tmpfs'
               /\ \A d \in DOMAIN tmpfs \ {acq[w].tmp} :
                     d \in DOMAIN tmpfs' /\ tmpfs'[d] = tmpfs[d]]_vars

C11_RaisedWithFilesWritten ==
    /\ acq["w1"].pc = "raised"
    /\ acq["w1"].exc.type = "CalledProcessError"
    /\ acq["w1"].downloaded = File("vid", "webm.part")
    /\ acq["w2"].pc = "whisper"
    /\ tmpfs = (acq["w2"].tmp :> {File("vid", "webm"), File("vid", "wav")})

\* The helper applied in this run and its argument.
Applied(fn) == call.fn = fn /\ call.done

\* The schema as the claims word it: what an item of questions must be.
QuestionConforms(q) ==
    /\ q.t = "dict"
    /\ {"question_title", "question_options", "answer"} \subseteq DOMAIN q.d
    /\ q.d.question_options.t = "list"
    /\ Len(q.d.question_options.l) = NumOptions
    /\ \A a, b \in 1..NumOptions :
          a # b => q.d.question_options.l[a] # q.d.question_options.l[b]
    /\ \E a \in 1..NumOptions : q.d.answer = q.d.question_options.l[a]

DraftConforms(data) ==
    /\ data.t = "dict"
    /\ {"title", "description", "questions"} \subseteq DOMAIN data.d
    /\ data.d.questions.t = "list"
    /\ Len(data.d.questions.l) = NumQuestions
    /\ \A i \in 1..NumQuestions : QuestionConforms(data.d.questions.l[i])

\* C12. The validator returns without raising exactly when the draft is a
\* mapping with title, description and questions, questions is a list of
\* exactly 10 items and each item is a mapping with question_title,
\* question_options and answer, its options a list of exactly 4 pairwise
\* distinct items and its answer one of them; every other draft is rejected
\* with a validation failure (ValueError), 9 or 11 questions with the
\* "exactly 10 questions" message.
C12_ValidatorAcceptsExactly ==
    Applied("validate_quiz_json") =>
       /\ DraftConforms(call.arg) <=> call.out.exc = NoExc
       /\ ~DraftConforms(call.arg) => call.out.exc.type = "ValueError"
       /\ ( /\ call.arg.t = "dict"
            /\ {"title", "description", "questions"} \subseteq DOMAIN call.arg.d
            /\ call.arg.d.questions.t = "list"
            /\ Len(call.arg.d.questions.l) \in {NumQuestions - 1, NumQuestions + 1} ) =>
             call.out.exc = ValueError("Quiz must contain exactly 10 questions.")

\* The checks in the order the claim gives them, each with the message the
\* validator has for it.
CheckMessages ==
    [ mapping |-> "Invalid quiz format.",
      keys |-> "Missing required quiz fields.",
      count |-> "Quiz must contain exactly 10 questions.",
      question_mapping |-> "Invalid question format.",
      question_keys |-> "Question is missing.",
      options_count |-> "Every question must have exactly 4 options.",
      options_distinct |-> "Options must be unique.",
      answer_member |-> "Answer must be one of the question_options." ]

\* The first check an item of questions violates, "none" if it violates none.
FirstQuestionViolation(q) ==
    IF q.t # "dict" THEN "question_mapping"
    ELSE IF \E k \in {"question_title", "question_options", "answer"} : k \notin DOMAIN q.d
    THEN "question_keys"
    ELSE IF q.d.question_options.t # "list" \/ Len(q.d.question_options.l) # NumOptions
    THEN "options_count"
    ELSE IF \E a, b \in 1..NumOptions :
               a < b /\ q.d.question_options.l[a] = q.d.question_options.l[b]
    THEN "options_distinct"
    ELSE IF \A a \in 1..NumOptions : q.d.answer # q.d.question_options.l[a]
    THEN "answer_member"
    ELSE "none"

\* The first check a draft violates: the top level, then the earliest
\* question that violates a check.
FirstViolation(data) ==
    IF data.t # "dict" THEN "mapping"
    ELSE IF \E k \in {"title", "description", "questions"} : k \notin DOMAIN data.d
    THEN "keys"
    ELSE IF data.d.questions.t # "list" \/ Len(data.d.questions.l) # NumQuestions
    THEN "count"
    ELSE LET violating == {i \in 1..NumQuestions :
                              FirstQuestionViolation(data.d.questions.l[i]) # "none"}
         IN IF violating = {} THEN "none"
            ELSE FirstQuestionViolation(
                    data.d.questions.l[CHOOSE i \in violating : \A j \in violating : i <= j])

\* C18. The validator fails fast in a fixed order: what it raises is the
\* failure of the first violated check (top-level mapping, top-level keys,
\* question count, then question by question: mapping, keys, 4 options,
\* distinct options, answer membership), the earliest violating question
\* deciding; it raises nothing when no check is violated; and the messages of
\* different checks differ.
C18_FirstViolationReported ==
    /\ \A a, b \in DOMAIN CheckMessages : a # b => CheckMessages[a] # CheckMessages[b]
    /\ Applied("validate_quiz_json") =>
          IF FirstViolation(call.arg) = "none"
          THEN call.out.exc = NoExc
          ELSE call.out.exc = ValueError(CheckMessages[FirstViolation(call.arg)])

\* The positions of s where a token begins: 6 or more characters of
\* [A-Za-z0-9_-] directly after "v=" or "youtu.be/".
TokenStarts(s) ==
    {i \in 1..Len(s) :
        /\ \E m \in {MarkerV, MarkerShort} :
              i > Len(m) /\ SubSeq(s, i - Len(m), i - 1) = m
        /\ i + MinIdLen - 1 <= Len(s)
        /\ \A k \in i..(i + MinIdLen - 1) : s[k] \in IdChars}

\* The token that begins at i: up to the next character outside the class.
TokenAt(s, i) ==
    LET ends == {e \in i..Len(s) :
                   /\ \A k \in i..e : s[k] \in IdChars
                   /\ e = Len(s) \/ s[e + 1] \notin IdChars}
    IN SubSeq(s, i, CHOOSE e \in ends : TRUE)

\* C13. normalize_youtube_url returns, for a string with a token of 6 or
\* more characters of [A-Za-z0-9_-] directly after "v=" or "youtu.be/", the
\* url https://www.youtube.com/watch?v= followed by exactly the first such
\* token, and None for a string with no such token.
C13_NormalizationTotal ==
    Applied("normalize_youtube_url") =>
       IF TokenStarts(call.arg) = {}
       THEN call.out.value = None
       ELSE LET first == CHOOSE i \in TokenStarts(call.arg) :
                            \A j \in TokenStarts(call.arg) : i <= j
            IN /\ call.out.value # None
               /\ call.out.value = WatchPrefix \o TokenAt(call.arg, first)

C13_SecondMarkerMatched ==
    /\ Applied("normalize_youtube_url")
    /\ call.arg = MarkerShort \o <<"a","b","c">> \o MarkerV \o <<"X","y","_","-","7","8","9">>
    /\ call.out.value = WatchPrefix \o <<"X","y","_","-","7","8","9">>

\* Two texts parse alike: json.loads raises on both or returns equal values.
ParseAlike(a, b) ==
    /\ JsonLoads(a).exc.type = JsonLoads(b).exc.type
    /\ JsonLoads(a).exc = NoExc => JsonLoads(a).value = JsonLoads(b).value

\* C14. strip_json_fences reduces an opening fence line (bare, or tagged
\* with a language name), a structured text and a closing bare fence to a
\* text that parses to the same value as the structured text; a text that,
\* trimmed, does not start with the fence is returned trimmed and otherwise
\* unchanged.
C14_FencesStripped ==
    Applied("strip_json_fences") =>
       /\ call.arg.how = "wrapped" =>
             /\ JsonLoads(call.arg.doc).exc = NoExc
             /\ ParseAlike(call.out.value, call.arg.doc)
       /\ ~StartsWithAt(Strip(call.arg.text), 1, Fence) =>
             call.out.value = Strip(call.arg.text)

\* The rows of a table that transaction tx has not written: those of the
\* other transaction and the committed ones.
RowsNotOf(table, tx) == [id \in {i \in DOMAIN table : table[i].tx # tx} |-> table[id]]

\* C15. Two create requests served concurrently do not disturb each other,
\* in every interleaving of their steps: a step of one request leaves the
\* other request and every row it has not itself written as they are, and
\* writes rows only for its own quiz; every question row in flight belongs
\* to the quiz row of the request writing it; a request that answered 201 has
\* stored exactly its own draft, a request that failed has left no row, and
\* a request with a valid draft and no storage fault of its own answers 201.
C15_ConcurrentIndependent ==
    /\ [](\A w \in DOMAIN req :
            /\ \A id \in DOMAIN questions :
                  questions[id].tx = w =>
                     /\ questions[id].quiz = req[w].quiz
                     /\ req[w].quiz \in DOMAIN quizzes
                     /\ quizzes[req[w].quiz].tx = w
            /\ \A id \in Visible(questions) : questions[id].quiz \in Visible(quizzes)
            /\ (Finished(w) /\ req[w].status = 201) => StoredAsDrafted(req[w])
            /\ (Failed(w) /\ req[w].quiz # 0) =>
                  /\ req[w].quiz \notin DOMAIN quizzes
                  /\ \A id \in DOMAIN questions : questions[id].quiz # req[w].quiz
            /\ ( /\ Finished(w)
                 /\ "validate" \in SeqRange(req[w].steps)
                 /\ validate_quiz_json(req[w].quiz_json) = NoExc
                 /\ req[w].exc.type # "DatabaseError" ) => req[w].status = 201)
    /\ [][\A w \in DOMAIN req :
            req'[w] # req[w] =>
               /\ \A v \in DOMAIN req \ {w} : req'[v] = req[v]
               /\ \A id \in DOMAIN RowsNotOf(quizzes, w) :
                     id \in DOMAIN quizzes' /\ quizzes'[id] = quizzes[id]
               /\ \A id \in DOMAIN RowsNotOf(questions, w) :
                     id \in DOMAIN questions' /\ questions'[id] = questions[id]
               /\ \A id \in DOMAIN questions' \ DOMAIN questions :
                     questions'[id].quiz = req'[w].quiz]_vars

C15_BothStoredInterleaved ==
    /\ \A w \in DOMAIN req : Finished(w) /\ req[w].status = 201 /\ req[w].user = "alice"
    /\ DOMAIN req = Pair
    /\ Alternations(questions, Ascending(DOMAIN questions)) >= 2

\* C16. A stored quiz changes only by a patch of that quiz answered 200, and
\* then at most in title and description: its owner, its video url and its
\* questions (their set, their order, their content) stay, and so does every
\* other quiz; a patch that is refused (400 invalid body, 403, 404) changes
\* no row.
C16_PatchFrame ==
    [][/\ \A w \in Workers :
             (req[w].pc = "idle" /\ req'[w].op = "patch") =>
                /\ questions' = questions
                /\ DOMAIN quizzes' = DOMAIN quizzes
                /\ \A id \in DOMAIN quizzes \ {req'[w].quiz} : quizzes'[id] = quizzes[id]
                /\ req'[w].status # 200 => quizzes' = quizzes
                /\ req'[w].status = 200 =>
                      /\ quizzes[req'[w].quiz].user = req'[w].user
                      /\ quizzes'[req'[w].quiz] =
                            [quizzes[req'[w].quiz] EXCEPT
                                !.title = quizzes'[req'[w].quiz].title,
                                !.description = quizzes'[req'[w].quiz].description]
       /\ \A id \in Visible(quizzes) \cap Visible(quizzes') :
             quizzes'[id] # quizzes[id] =>
                \E w \in Workers :
                   /\ req[w].pc = "idle"
                   /\ req'[w].op = "patch"
                   /\ req'[w].quiz = id
                   /\ req'[w].status = 200]_vars

C16_TitlePatched ==
    \E w \in Workers :
        /\ Answered(w, {"patch"})
        /\ req[w].status = 200
        /\ quizzes[req[w].quiz].title = "T9"
        /\ quizzes[req[w].quiz].user = "alice"
        /\ quizzes[req[w].quiz].video_url = normalize_youtube_url(UrlWatch)
        /\ Cardinality(QuestionIds(req[w].quiz)) = NumQuestions

\* C17. A delete answered 204 removes the named quiz, which the requester
\* owned, and exactly the questions of that quiz: every other quiz and every
\* other question stays as it was. In every state each stored question
\* references a stored quiz. An id that has been given out and is no longer
\* stored never comes back, and a list or detail answers only quizzes that
\* are stored when it answers.
C17_DeleteCascades ==
    /\ [](\A q \in DOMAIN questions : questions[q].quiz \in DOMAIN quizzes)
    /\ [][/\ \A w \in Workers :
               (req[w].pc = "idle" /\ req'[w].op = "delete" /\ req'[w].status = 204) =>
                  /\ req'[w].quiz \in Visible(quizzes)
                  /\ quizzes[req'[w].quiz].user = req'[w].user
                  /\ DOMAIN quizzes' = DOMAIN quizzes \ {req'[w].quiz}
                  /\ \A id \in DOMAIN quizzes' : quizzes'[id] = quizzes[id]
                  /\ DOMAIN questions' =
                        {q \in DOMAIN questions : questions[q].quiz # req'[w].quiz}
                  /\ \A q \in DOMAIN questions' : questions'[q] = questions[q]
          /\ \A id \in 1..(nextQuizId - 1) :
                id \notin DOMAIN quizzes => id \notin DOMAIN quizzes'
          /\ \A w \in Workers :
               (req[w].pc = "idle" /\ req'[w].op \in {"list", "detail"}
                                   /\ req'[w].status = 200) =>
                  \A i \in DOMAIN req'[w].body : req'[w].body[i] \in Visible(quizzes')]_vars

C17_DeletedWithQuestions ==
    \E w \in Workers :
        /\ Answered(w, {"delete"})
        /\ req[w].status = 204
        /\ req[w].quiz \notin DOMAIN quizzes
        /\ req[w].quiz < nextQuizId
        /\ \E other \in Visible(quizzes) :
              Cardinality(QuestionIds(other)) = NumQuestions
        /\ Cardinality(DOMAIN questions) = NumQuestions
        /\ nextQuestionId > 2 * NumQuestions

(***************************************************************************)
(* Registration. Two server workers answer registration requests; each     *)
(* request validates its body against the stored accounts and then saves   *)
(* the account, with no transaction around the two.                        *)
(***************************************************************************)
\* request.data of a registration
RegistrationBodies ==
    [username : {"ann", "ben"}, email : {"ann@quizly.de", "ben@quizly.de"},
     password : {"pw1"}, confirmed_password : {"pw1", "pw2"}]

NoRegistration ==
    [username |-> "", email |-> "", password |-> "", confirmed_password |-> ""]

IdleReg == [pc |-> "idle", data |-> NoRegistration, status |-> 0, errors |-> {}, exc |-> ""]

\* User.username is unique: the model serializer validates it, the table enforces it.
UsernameTaken(username) == \E i \in DOMAIN accounts : accounts[i].username = username

\* User.objects.filter(email=value).exists()
EmailExists(value) == \E i \in DOMAIN accounts : accounts[i].email = value

\* TRUE when the value passes: no ValidationError('Email already exists')
validate_email(value) == ~EmailExists(value)

\* TRUE when the value passes: no ValidationError('Passwords do not match')
validate_confirmed_password(data) ==
    ~(data.password # "" /\ data.confirmed_password # ""
        /\ data.password # data.confirmed_password)

\* serializer.errors: the fields that failed
RegistrationErrors(data) ==
    {f \in {"username"} : UsernameTaken(data.username)}
        \cup {f \in {"email"} : ~validate_email(data.email)}
        \cup {f \in {"confirmed_password"} : ~validate_confirmed_password(data)}

\* RegistrationView.post up to serializer.is_valid(): 400 with the errors, or on to save().
RegistrationIsValid(w) ==
    /\ reg[w].pc = "idle"
    /\ \E data \in RegistrationBodies :
          LET errors == RegistrationErrors(data) IN
          reg' = [reg EXCEPT ![w] =
                    IF errors = {}
                    THEN [IdleReg EXCEPT !.pc = "valid", !.data = data]
                    ELSE [IdleReg EXCEPT !.pc = "done", !.data = data,
                                         !.status = 400, !.errors = errors]]
    /\ UNCHANGED <<quizVars, tmpfs, acq, call, accounts, tokens, auth>>

\* serializer.save(): account.save() inserts the row; a username taken in the
\* meantime raises IntegrityError, which the view does not catch.
RegistrationSave(w) ==
    /\ reg[w].pc = "valid"
    /\ IF UsernameTaken(reg[w].data.username)
       THEN /\ reg' = [reg EXCEPT ![w].pc = "done", ![w].status = 500,
                                  ![w].exc = "IntegrityError"]
            /\ UNCHANGED accounts
       ELSE /\ accounts' = Append(accounts, [username |-> reg[w].data.username,
                                             email |-> reg[w].data.email])
            /\ reg' = [reg EXCEPT ![w].pc = "done", ![w].status = 201]
    /\ UNCHANGED <<quizVars, tmpfs, acq, call, tokens, auth>>

\* The response is sent; the worker takes the next request.
RegistrationAnswered(w) ==
    /\ reg[w].pc = "done"
    /\ reg' = [reg EXCEPT ![w] = IdleReg]
    /\ UNCHANGED <<quizVars, tmpfs, acq, call, accounts, tokens, auth>>

InitRegistration ==
    /\ QuizAtRest
    /\ tmpfs = <<>>
    /\ acq = <<>>
    /\ call = <<>>
    /\ accounts = <<>>
    /\ reg = [w \in Pair |-> IdleReg]
    /\ tokens = <<>>
    /\ auth = <<>>

NextRegistration ==
    \E w \in Pair :
        \/ RegistrationIsValid(w)
        \/ RegistrationSave(w)
        \/ RegistrationAnswered(w)

SpecRegistration == InitRegistration /\ [][NextRegistration]_vars

\* C19. No two accounts have the same email, and a registration that is
\* answered while an account with its email exists is answered 400 and
\* creates no account.
C19_EmailsUnique ==
    /\ [](\A i, j \in DOMAIN accounts :
             accounts[i].email = accounts[j].email => i = j)
    /\ [][\A w \in Pair :
             (reg[w].pc # "done" /\ reg'[w].pc = "done"
                  /\ EmailExists(reg'[w].data.email)) =>
                (reg'[w].status = 400 /\ accounts' = accounts)]_vars

(***************************************************************************)
(* Sessions. Login issues a refresh token and an access token and sets     *)
(* them as cookies; refresh and logout read the refresh_token cookie of    *)
(* the request. A request may carry any token that was ever issued.        *)
(***************************************************************************)
AccessCookie == "access_token"
RefreshCookie == "refresh_token"
NoCookie == 0

NoResponse ==
    [op |-> "", user |-> "", refresh |-> NoCookie, status |-> 0, exc |-> "",
     set |-> {}, deleted |-> {}]

\* The answer to a request: its status, the exception that escaped the view,
\* the cookies the response sets and the cookies it deletes.
Answer(op, user, refresh, status, exc, set, deleted) ==
    [op |-> op, user |-> user, refresh |-> refresh, status |-> status, exc |-> exc,
     set |-> set, deleted |-> deleted]

\* RefreshToken(refresh) raises TokenError for a token that is expired or blacklisted.
TokenError(refresh) == tokens[refresh].expired \/ tokens[refresh].blacklisted

\* permission_classes = [permissions.IsAuthenticated]: the request carries an
\* access token of the user that is still good.
Authenticated(user) == user \in auth.access

\* LoginView.post: wrong credentials are answered 401 with no cookie; right
\* ones issue both tokens and set both cookies.
Login ==
    /\ Len(tokens) < MaxTokens
    /\ \E user \in Users, credentials \in {"right", "wrong"} :
          IF credentials = "wrong"
          THEN /\ auth' = [auth EXCEPT !.last =
                              Answer("login", user, NoCookie, 401, "", {}, {})]
               /\ UNCHANGED tokens
          ELSE /\ tokens' = Append(tokens, [user |-> user, expired |-> FALSE,
                                            blacklisted |-> FALSE])
               /\ auth' = [access |-> auth.access \cup {user},
                           last |-> Answer("login", user, Len(tokens) + 1, 200, "",
                                           {AccessCookie, RefreshCookie}, {})]
    /\ UNCHANGED <<quizVars, tmpfs, acq, call, accounts, reg>>

\* The lifetime of a refresh token ends.
ExpireToken ==
    /\ \E t \in DOMAIN tokens :
          /\ ~tokens[t].expired
          /\ tokens' = [tokens EXCEPT ![t].expired = TRUE]
    /\ UNCHANGED <<quizVars, tmpfs, acq, call, accounts, reg, auth>>

\* CookieTokenRefreshView.post
CookieTokenRefresh(refresh) ==
    /\ IF refresh = NoCookie
       THEN auth' = [auth EXCEPT !.last =
                        Answer("refresh", "", refresh, 401, "", {}, {})]
       ELSE IF TokenError(refresh)
       THEN auth' = [auth EXCEPT !.last =
                        Answer("refresh", "", refresh, 401, "InvalidToken", {}, {})]
       ELSE auth' = [access |-> auth.access \cup {tokens[refresh].user},
                     last |-> Answer("refresh", tokens[refresh].user, refresh, 200, "",
                                     {AccessCookie}, {})]
    /\ UNCHANGED <<quizVars, tmpfs, acq, call, accounts, reg, tokens>>

\* LogoutView.post: RefreshToken(refresh) and token.blacklist() stand outside
\* any try, so a TokenError leaves the view before the response is built.
Logout(user, refresh) ==
    /\ IF ~Authenticated(user)
       THEN /\ auth' = [auth EXCEPT !.last =
                           Answer("logout", user, refresh, 401, "", {}, {})]
            /\ UNCHANGED tokens
       ELSE IF refresh = NoCookie
       THEN /\ auth' = [auth EXCEPT !.last =
                           Answer("logout", user, refresh, 200, "", {},
                                  {AccessCookie, RefreshCookie})]
            /\ UNCHANGED tokens
       ELSE IF TokenError(refresh)
       THEN /\ auth' = [auth EXCEPT !.last =
                           Answer("logout", user, refresh, 500, "TokenError", {}, {})]
            /\ UNCHANGED tokens
       ELSE /\ tokens' = [tokens EXCEPT ![refresh].blacklisted = TRUE]
            /\ auth' = [auth EXCEPT !.last =
                           Answer("logout", user, refresh, 200, "", {},
                                  {AccessCookie, RefreshCookie})]
    /\ UNCHANGED <<quizVars, tmpfs, acq, call, accounts, reg>>

\* The refresh_token cookies a request can carry: none, or a token once issued.
RequestCookies == {NoCookie} \cup DOMAIN tokens

InitSession ==
    /\ QuizAtRest
    /\ tmpfs = <<>>
    /\ acq = <<>>
    /\ call = <<>>
    /\ accounts = <<>>
    /\ reg = <<>>
    /\ tokens = <<>>
    /\ auth = [access |-> {}, last |-> NoResponse]

NextSession ==
    \/ Login
    \/ ExpireToken
    \/ \E refresh \in RequestCookies : CookieTokenRefresh(refresh)
    \/ \E user \in Users, refresh \in RequestCookies : Logout(user, refresh)

SpecSession == InitSession /\ [][NextSession]_vars

\* C20. Every logout by an authenticated user, whether the token in its
\* refresh_token cookie is valid, expired, already blacklisted or absent,
\* leaves the token (if present) blacklisted and answers with both cookies
\* deleted; and a refresh with a blacklisted token is rejected.
C20_LogoutInvalidates ==
    [][/\ \A user \in Users, refresh \in RequestCookies :
             (Authenticated(user) /\ Logout(user, refresh)) =>
                /\ refresh # NoCookie => tokens'[refresh].blacklisted
                /\ auth'.last.deleted = {AccessCookie, RefreshCookie}
       /\ \A refresh \in DOMAIN tokens :
             (tokens[refresh].blacklisted /\ CookieTokenRefresh(refresh)) =>
                auth'.last.status = 401]_vars

====
